---- MODULE Spec2Model ----
(***************************************************************************)
(* The AI request dispatch layer of the interview coach:                   *)
(*   - callGemini / callAI of src/src/services/ai-service.ts (the client   *)
(*     dispatcher: proxy transport on a non-localhost host, direct         *)
(*     transport on localhost, one shared retry counter),                  *)
(*   - handler of src/api/gemini.ts (the serverless proxy).                *)
(* One logical call is followed from callAI to the value or the error it   *)
(* ends with.  The proxy endpoint, the hosting platform in front of it and *)
(* the provider are the environment: their answers are chosen freely.      *)
(***************************************************************************)
EXTENDS Integers, Sequences, FiniteSets, TLC

(***************************************************************************)
(* Bounds of the model.                                                    *)
(***************************************************************************)
\* longest message list a logical call is started with
MaxMsgs == 1

(***************************************************************************)
(* Values.                                                                 *)
(***************************************************************************)
Roles == {"system", "user", "assistant"}

Contents == {"c"}

Message == [role : Roles, content : Contents]

\* a value that is not an array (undefined, null, an object, a string)
NotAnArray == [isArray |-> FALSE, items |-> << >>]

ArrayOf(items) == [isArray |-> TRUE, items |-> items]

\* what a caller may hand to callAI: an array of at most MaxMsgs messages,
\* or something that is no array at all
MessageInputs ==
  {NotAnArray} \cup {ArrayOf(s) : s \in UNION {[1..k -> Message] : k \in 0..MaxMsgs}}

\* texts the provider may produce
Texts == {"hello", "other"}

\* what `return data.x` yields when the field is absent
Undefined == "<undefined>"

\* provider "retry in Ns" hints, N in microseconds: 3.5s, 2s, 0.4s, 3.5004s
Hints == {3500000, 2000000, 400000, 3500400}

NoResponse == [status |-> -1, shape |-> "none", text |-> "", hintUs |-> 0]

Resp(status, shape, text, hintUs) ==
  [status |-> status, shape |-> shape, text |-> text, hintUs |-> hintUs]

\* status 0 stands for fetch() rejecting: no HTTP response at all.  Chrome
\* words it "Failed to fetch"; other engines word it differently.
NetworkFailures ==
  {Resp(0, "FailedToFetch", "", 0), Resp(0, "OtherNetworkError", "", 0)}

\* HTTP answers of the provider's generateContent endpoint
\*   200: the text is there, or candidates is missing, or parts[0] has no text
\*   otherwise: a body that is no JSON, one without error.message, a plain
\*   message, one with a "retry in Ns" hint, one holding "Failed to fetch"
ProviderErrorStatuses == {400, 403, 404, 429, 503}

ProviderHttpResponses ==
  {Resp(200, "text", t, 0) : t \in Texts}
    \cup {Resp(200, "noCandidates", "", 0), Resp(200, "noTextField", "", 0)}
    \cup {Resp(s, sh, "", 0) :
            s \in ProviderErrorStatuses,
            sh \in {"unparseable", "noMessage", "plain", "ftfMessage"}}
    \cup {Resp(s, "hint", "", h) : s \in ProviderErrorStatuses, h \in Hints}

ProviderResponses == ProviderHttpResponses \cup NetworkFailures

\* what the hosting platform answers when the function is absent or throttled:
\* 404, 429, 503 or the single-page fallback (200 with an HTML body), or no
\* answer at all
PlatformResponses ==
  {Resp(s, "html", "", 0) : s \in {200, 404, 429, 503}} \cup NetworkFailures

(***************************************************************************)
(* Program constants (src/src/services/ai-service.ts).                     *)
(***************************************************************************)
\* retryCount < 3 on the proxy path
ProxyRetryLimit == 3
\* 2000 * (retryCount + 1) on the proxy path
ProxyBackoffMs == 2000
\* retryCount < 5 on the direct path
DirectRetryLimit == 5
\* let retryDelay = 2000 * (retryCount + 1)
DirectBackoffMs == 2000
\* ... + 1000 after the parsed hint
HintMarginMs == 1000
\* setTimeout(r, 1000) of the countdown loop
CountdownStepMs == 1000
\* retryCount < 2 for 'Failed to fetch'
NetworkRetryLimit == 2
\* setTimeout(r, 1000) before the network retry
NetworkRetryWaitMs == 1000

(***************************************************************************)
(* Pure helpers of callGemini.                                             *)
(***************************************************************************)
\* response.ok
IsOk(r) == r.status >= 200 /\ r.status <= 299

\* Math.ceil(parseFloat(N) * 1000), N given in microseconds
CeilMs(us) == (us + 999) \div 1000

\* Math.round(ms / 1000): halves round up
RoundSeconds(ms) == (ms + 500) \div 1000

\* errorMessage after the inner try/catch: "" when error.message is absent,
\* `API Error (status)` when the body is no JSON, else the provider's message
ErrorMessage(r) ==
  CASE r.shape = "unparseable" -> "ApiErrorStatus"
    [] r.shape = "noMessage" -> ""
    [] OTHER -> "ProviderMessage"

\* retryDelay: 2000 * (retryCount + 1), replaced by ceil(N * 1000) + 1000 when
\* the parsed message matches /retry in ([\d.]+)s/
RetryDelay(r, rc) ==
  IF r.shape = "hint" THEN CeilMs(r.hintUs) + HintMarginMs
  ELSE DirectBackoffMs * (rc + 1)

\* (variant: one sleep of retryDelay ms instead of the countdown)
CountdownMsMutant(delay) == delay

\* the countdown loop: Math.round(retryDelay / 1000) waits of one second
CountdownMs(delay) == RoundSeconds(delay) * CountdownStepMs

\* (variant: one retry fewer)
ProxyRetryMutant(status, rc) ==
  (status = 429 \/ status = 503) /\ rc < ProxyRetryLimit - 1

\* the proxy path retries 429 and 503 while retryCount < 3
ProxyRetry(status, rc) ==
  (status = 429 \/ status = 503) /\ rc < ProxyRetryLimit

\* (variant: a constant wait)
ProxyWaitMutant(rc) == ProxyBackoffMs

\* wait before a proxy retry: 2000 * (retryCount + 1)

ProxyWait(rc) == ProxyBackoffMs * (rc + 1)

\* (variant: every failed status is retried)
DirectRetryMutant(status, rc) == status >= 300 /\ rc < DirectRetryLimit

\* (variant: one retry too many)
DirectRetryOneMoreMutant(status, rc) ==
  (status = 429 \/ status = 503 \/ status = 404) /\ rc <= DirectRetryLimit

\* the direct path retries 429, 503 and 404 while retryCount < 5
DirectRetry(status, rc) ==
  (status = 429 \/ status = 503 \/ status = 404) /\ rc < DirectRetryLimit

\* (variant: the network branch bounded like the quota branch)
NetworkRetryMutant(ftf, rc) == ftf /\ rc < DirectRetryLimit

\* the outer catch retries when the message includes 'Failed to fetch' and
\* retryCount < 2
NetworkRetry(ftf, rc) == ftf /\ rc < NetworkRetryLimit

\* (variant: the production guard removed)
DirectDisabledMutant(local) == FALSE

\* line 56: outside localhost step 2 throws instead of calling the provider

DirectDisabled(local) == ~local

\* how many further numbered keys the environment may hold
ExtraKeyCounts == {0, 1}

\* an Error as the caller sees it: which message, and whether the message
\* includes the words 'Failed to fetch'
Err(tag, ftf) == [tag |-> tag, ftf |-> ftf]

NoErr == Err("", FALSE)

\* (variant: no special case for 429)
DirectThrowMutant(r) ==
  IF r.shape = "noMessage" THEN [tag |-> "GeminiApiErrorStatus", ftf |-> FALSE]
  ELSE [tag |-> IF r.shape = "unparseable" THEN "ApiErrorStatus" ELSE "ProviderMessage",
        ftf |-> r.shape = "ftfMessage"]

\* what the try block of the direct path throws for a non-ok response that
\* is not retried: the quota error for 429, else errorMessage or the generic
\* `Gemini API Error (status)`
DirectThrow(r) ==
  IF r.status = 429 THEN Err("QuotaExceeded", r.shape = "ftfMessage")
  ELSE IF ErrorMessage(r) = "" THEN Err("GeminiApiErrorStatus", FALSE)
  ELSE Err(ErrorMessage(r), r.shape = "ftfMessage")

\* what fetch() throws when the request fails below HTTP
FetchThrow(r) == Err("NetworkError", r.shape = "FailedToFetch")

(***************************************************************************)
(* The proxy handler (src/api/gemini.ts) as a function of the request and  *)
(* of the provider's answer.                                               *)
(***************************************************************************)
\* (variant: the key is not checked before the provider is called)
HandlerCallsProviderMutant(method, key, msgs) ==
  method = "POST" /\ msgs.isArray

\* does the handler get as far as the provider?
HandlerCallsProvider(method, key, msgs) ==
  method = "POST" /\ key /\ msgs.isArray

\* the handler's HTTP answer; up is the provider's answer when it was asked
HandlerResponse(method, key, msgs, up) ==
  IF method # "POST" THEN Resp(405, "error", "MethodNotAllowed", 0)
  ELSE IF ~key THEN Resp(500, "error", "NoKeyOnServer", 0)
  ELSE IF ~msgs.isArray THEN Resp(400, "error", "MessagesArrayRequired", 0)
  ELSE IF up.status = 0 THEN Resp(500, "error", "NetworkError", 0)
  ELSE IF ~IsOk(up) THEN
    Resp(500, "error",
         IF up.shape = "unparseable" THEN "SyntaxError"
         ELSE IF up.shape = "noMessage" THEN "GeminiApiErrorStatus"
         ELSE "ProviderMessage", 0)
  ELSE IF up.shape # "text" THEN Resp(500, "error", "UnexpectedResponseFormat", 0)
  ELSE Resp(200, "text", up.text, 0)

(***************************************************************************)
(* State.                                                                  *)
(***************************************************************************)
VARIABLES
  isLocal,        \* window.location.hostname.includes('localhost')
  localApiKey,    \* is VITE_GEMINI_API_KEY1 / VITE_GEMINI_API_KEY set (client)
  GEMINI_API_KEY, \* is a key set in the handler's environment
  extraKeys,      \* further numbered keys set in the environment (..._KEY2, ...)
  messages,       \* the argument of the logical call
  pc,             \* where the logical call stands
  retryCount,     \* the retryCount parameter of the running invocation
  resp,           \* the HTTP answer on its way to the client
  result,         \* what the logical call ended with
  last,           \* the last answer the client has acted on
  lastWait,       \* ms the client slept while acting on it
  proxyReqs,      \* requests client -> /api/gemini
  directReqs,     \* requests client -> provider
  upstreamReqs,   \* requests handler -> provider
  upstream,       \* the provider's answer to the handler, for the pending request
  retryable,      \* 429/503 answers received from the proxy
  quota429,       \* 429 answers received from the provider
  netRetries,     \* retries taken by the 'Failed to fetch' branch
  keyLog,         \* the credential (its place in the pool) of each provider request
  phase,          \* "call", or "input"/"output" of a pure function applied alone
  tIn,            \* translation: the message list
  tHandler,       \* translation: geminiMessages of the handler
  tClient,        \* translation: geminiMessages of callGemini
  jCase,          \* repair: how the content was made (document, closers due)
  jIn,            \* repair: the content given to cleanJsonResponse
  jOut,           \* repair: what cleanJsonResponse returns
  jAgain,         \* repair: what cleanJsonResponse returns for jOut
  currentStep,    \* Dashboard: "setup", "rounds", "activeRound", "finalResults"
  selectedCompany, \* Dashboard: "" until a company is selected
  selectedRole,   \* Dashboard: "" until a role is selected
  resumeUploaded, \* Dashboard
  currentRound,   \* Dashboard: the round shown by the active-round step
  sessionId,      \* Dashboard: "", an interview id, or a session_ fallback id
  roundScores,    \* Dashboard: round id -> score, 0 for none
  completedRounds, \* Dashboard: the list of completed round ids
  event,          \* Dashboard: the handler that ran last
  interview_scores, \* database: the scores of the rows of interview_scores
  total_score,    \* database: interviews.total_score of the interview
  saves           \* database: the saveRoundResult calls started, each with its place

vars ==
  <<isLocal, localApiKey, GEMINI_API_KEY, messages, pc, retryCount, resp,
    result, last, lastWait, proxyReqs, directReqs, upstreamReqs, upstream,
    retryable, quota429, netRetries, extraKeys, keyLog, phase, tIn, tHandler,
    tClient, jCase, jIn, jOut, jAgain, currentStep, selectedCompany,
    selectedRole, resumeUploaded, currentRound, sessionId, roundScores,
    completedRounds, event, interview_scores, total_score, saves>>

config == <<isLocal, localApiKey, GEMINI_API_KEY, extraKeys>>

\* the variables of the pure functions, untouched by a logical call
pureVars == <<phase, tIn, tHandler, tClient, jCase, jIn, jOut, jAgain>>

counters ==
  <<proxyReqs, directReqs, upstreamReqs, upstream, retryable, quota429, netRetries>>

NoResult == [kind |-> "none", text |-> "", err |-> NoErr]

Returned(t) == [kind |-> "ok", text |-> t, err |-> NoErr]

Thrown(e) == [kind |-> "error", text |-> "", err |-> e]

\* (variant: the last key of the pool instead of the first)
KeyInUseMutant == 1 + extraKeys

\* the credential a provider request carries: KEY1 || KEY on the client,
\* GEMINI_API_KEY || KEY1 || KEY in the handler, i.e. always the first one
\* configured, whatever else the environment holds
KeyInUse == 1

\* no pure function is under way
\* the state of the Dashboard component
dashboardVars ==
  <<currentStep, selectedCompany, selectedRole, resumeUploaded, currentRound,
    sessionId, roundScores, completedRounds, event>>

\* the rows of one interview in the database, and the calls working on them
dbVars == <<interview_scores, total_score, saves>>

appVars == <<dashboardVars, dbVars>>

RoundIds == {"aptitude", "coding", "interview"}

\* useState initial values of Dashboard
DashboardIdle ==
  /\ currentStep = "setup"
  /\ selectedCompany = ""
  /\ selectedRole = ""
  /\ resumeUploaded = FALSE
  /\ currentRound = ""
  /\ sessionId = ""
  /\ roundScores = [r \in RoundIds |-> 0]
  /\ completedRounds = << >>
  /\ event = "none"

\* a new interview row: no scores, no total
DbIdle ==
  /\ interview_scores = << >>
  /\ total_score = 0
  /\ saves = << >>

PureIdle ==
  /\ tIn = << >>
  /\ tHandler = << >>
  /\ tClient = << >>
  /\ jCase = << >>
  /\ jIn = << >>
  /\ jOut = << >>
  /\ jAgain = << >>

Init ==
  /\ isLocal \in BOOLEAN
  /\ localApiKey \in BOOLEAN
  /\ GEMINI_API_KEY \in BOOLEAN
  /\ extraKeys \in ExtraKeyCounts
  /\ keyLog = << >>
  /\ phase = "call"
  /\ PureIdle
  /\ DashboardIdle
  /\ DbIdle
  /\ messages = ArrayOf(<< >>)
  /\ pc = "idle"
  /\ retryCount = 0
  /\ resp = NoResponse
  /\ result = NoResult
  /\ last = NoResponse
  /\ lastWait = 0
  /\ proxyReqs = 0
  /\ directReqs = 0
  /\ upstreamReqs = 0
  /\ upstream = NoResponse
  /\ retryable = 0
  /\ quota429 = 0
  /\ netRetries = 0

(***************************************************************************)
(* callAI(messages): a logical call starts, callGemini with retryCount 0.  *)
(***************************************************************************)
callAI ==
  /\ pc = "idle"
  /\ \E m \in MessageInputs : messages' = m
  /\ pc' = "callGemini"
  /\ retryCount' = 0
  /\ UNCHANGED <<config, resp, result, last, lastWait, counters>>
  /\ UNCHANGED <<keyLog, pureVars, appVars>>

(***************************************************************************)
(* callGemini, from its entry to its first await.                          *)
(***************************************************************************)
\* non-localhost: the request goes to /api/gemini, whatever messages is
callGemini_proxy ==
  /\ pc = "callGemini"
  /\ ~isLocal
  /\ proxyReqs' = proxyReqs + 1
  /\ upstream' = NoResponse
  /\ pc' = "awaitProxy"
  /\ UNCHANGED <<config, messages, retryCount, resp, result, last, lastWait,
                 directReqs, upstreamReqs, retryable, quota429, netRetries>>
  /\ UNCHANGED <<keyLog, pureVars, appVars>>

\* step 2, reached at once on localhost and after the proxy block otherwise:
\* the production guard, the key check, messages.map, then the request to the
\* provider
callGemini_direct ==
  /\ pc = (IF isLocal THEN "callGemini" ELSE "step2")
  /\ IF DirectDisabled(isLocal)
       THEN /\ result' = Thrown(Err("DirectDisabledInProduction", FALSE))
            /\ pc' = "done"
            /\ UNCHANGED <<directReqs, keyLog>>
     ELSE IF ~localApiKey
       THEN /\ result' = Thrown(Err("NotConfigured", FALSE))
            /\ pc' = "done"
            /\ UNCHANGED <<directReqs, keyLog>>
     ELSE IF ~messages.isArray
       THEN /\ result' = Thrown(Err("TypeError", FALSE))
            /\ pc' = "done"
            /\ UNCHANGED <<directReqs, keyLog>>
     ELSE /\ directReqs' = directReqs + 1
          /\ keyLog' = Append(keyLog, KeyInUse)
          /\ pc' = "awaitDirect"
          /\ UNCHANGED result
  /\ UNCHANGED <<config, messages, retryCount, resp, last, lastWait,
                 proxyReqs, upstreamReqs, upstream, retryable, quota429, netRetries>>
  /\ UNCHANGED <<pureVars, appVars>>

(***************************************************************************)
(* The environment of the client on the proxy path.                        *)
(***************************************************************************)
\* the platform answers instead of the function
Platform ==
  /\ pc = "awaitProxy"
  /\ resp = NoResponse
  /\ \E r \in PlatformResponses : resp' = r
  /\ UNCHANGED <<config, messages, pc, retryCount, result, last, lastWait, counters>>
  /\ UNCHANGED <<keyLog, pureVars, appVars>>

\* the function runs: handler(req, res) of src/api/gemini.ts
handler ==
  /\ pc = "awaitProxy"
  /\ resp = NoResponse
  /\ \E up \in ProviderResponses :
       /\ resp' = HandlerResponse("POST", GEMINI_API_KEY, messages, up)
       /\ IF HandlerCallsProvider("POST", GEMINI_API_KEY, messages)
            THEN /\ upstreamReqs' = upstreamReqs + 1
                 /\ upstream' = up
                 /\ keyLog' = Append(keyLog, KeyInUse)
          ELSE UNCHANGED <<upstreamReqs, upstream, keyLog>>
  /\ UNCHANGED <<config, messages, pc, retryCount, result, last, lastWait,
                 proxyReqs, directReqs, retryable, quota429, netRetries>>
  /\ UNCHANGED <<pureVars, appVars>>

\* the provider answers the client's direct request
Provider ==
  /\ pc = "awaitDirect"
  /\ resp = NoResponse
  /\ \E r \in ProviderResponses : resp' = r
  /\ UNCHANGED <<config, messages, pc, retryCount, result, last, lastWait, counters>>
  /\ UNCHANGED <<keyLog, pureVars, appVars>>

(***************************************************************************)
(* callGemini, from the answer of /api/gemini to its end or its next       *)
(* invocation (lines 35-58).                                               *)
(***************************************************************************)
callGemini_proxyResponse ==
  /\ pc = "awaitProxy"
  /\ resp # NoResponse
  /\ last' = resp
  /\ resp' = NoResponse
  /\ retryable' =
       IF resp.status = 429 \/ resp.status = 503 THEN retryable + 1 ELSE retryable
  /\ IF resp.status = 0 \/ (IsOk(resp) /\ resp.shape # "text")
       \* fetch or response.json() threw: the catch block rethrows its own error
       THEN /\ result' = Thrown(Err("ProxyCallFailed", FALSE))
            /\ pc' = "done"
            /\ lastWait' = 0
            /\ UNCHANGED retryCount
     ELSE IF IsOk(resp)
       THEN /\ result' = Returned(resp.text)
            /\ pc' = "done"
            /\ lastWait' = 0
            /\ UNCHANGED retryCount
     ELSE IF ProxyRetry(resp.status, retryCount)
       THEN /\ lastWait' = ProxyWait(retryCount)
            /\ retryCount' = retryCount + 1
            /\ pc' = "callGemini"
            /\ UNCHANGED result
     \* any other status, or the budget is spent: control leaves the proxy
     \* block and reaches step 2
     ELSE /\ pc' = "step2"
          /\ lastWait' = 0
          /\ UNCHANGED <<retryCount, result>>
  /\ UNCHANGED <<config, messages, proxyReqs, directReqs, upstreamReqs, upstream,
                 quota429, netRetries>>
  /\ UNCHANGED <<keyLog, pureVars, appVars>>

(***************************************************************************)
(* callGemini, from the provider's answer to its end or its next           *)
(* invocation (lines 78-135).                                              *)
(***************************************************************************)
Outcome(kind, text, err, wait) ==
  [kind |-> kind, text |-> text, err |-> err, wait |-> wait]

\* the try block: a value, a retry after the countdown, or an exception
TryDirect(r, rc) ==
  IF r.status = 0 THEN Outcome("throw", "", FetchThrow(r), 0)
  ELSE IF IsOk(r) THEN
    IF r.shape = "text" THEN Outcome("return", r.text, NoErr, 0)
    ELSE IF r.shape = "noTextField" THEN Outcome("return", Undefined, NoErr, 0)
    ELSE Outcome("throw", "", Err("TypeError", FALSE), 0)
  ELSE IF DirectRetry(r.status, rc)
    THEN Outcome("retry", "", NoErr, CountdownMs(RetryDelay(r, rc)))
  ELSE Outcome("throw", "", DirectThrow(r), 0)

\* the catch block: one more invocation after a second, or the error as it is
CatchDirect(e, rc) ==
  IF NetworkRetry(e.ftf, rc)
    THEN Outcome("netRetry", "", NoErr, NetworkRetryWaitMs)
  ELSE Outcome("throw", "", e, 0)

DirectOutcome(r, rc) ==
  IF TryDirect(r, rc).kind = "throw" THEN CatchDirect(TryDirect(r, rc).err, rc)
  ELSE TryDirect(r, rc)

callGemini_directResponse ==
  /\ pc = "awaitDirect"
  /\ resp # NoResponse
  /\ last' = resp
  /\ resp' = NoResponse
  /\ quota429' = IF resp.status = 429 THEN quota429 + 1 ELSE quota429
  /\ LET o == DirectOutcome(resp, retryCount) IN
       /\ lastWait' = o.wait
       /\ netRetries' = IF o.kind = "netRetry" THEN netRetries + 1 ELSE netRetries
       /\ IF o.kind = "retry" \/ o.kind = "netRetry"
            THEN /\ retryCount' = retryCount + 1
                 /\ pc' = "callGemini"
                 /\ UNCHANGED result
          ELSE /\ result' = IF o.kind = "return" THEN Returned(o.text) ELSE Thrown(o.err)
               /\ pc' = "done"
               /\ UNCHANGED retryCount
  /\ UNCHANGED <<config, messages, proxyReqs, directReqs, upstreamReqs, upstream,
                 retryable>>
  /\ UNCHANGED <<keyLog, pureVars, appVars>>

Next ==
  \/ callAI
  \/ callGemini_proxy
  \/ callGemini_direct
  \/ Platform
  \/ handler
  \/ Provider
  \/ callGemini_proxyResponse
  \/ callGemini_directResponse

Spec == Init /\ [][Next]_vars

TypeOK ==
  /\ pc \in {"idle", "callGemini", "awaitProxy", "step2", "awaitDirect", "done"}
  /\ retryCount \in 0..DirectRetryLimit
  /\ messages \in MessageInputs
  /\ result.kind \in {"none", "ok", "error"}

(***************************************************************************)
(* Properties of one logical call.                                         *)
(***************************************************************************)
Done == pc = "done"

ProxyRetryableStatus(st) == st = 429 \/ st = 503

FailedToFetch == Resp(0, "FailedToFetch", "", 0)

\* C1: on a non-localhost host, when the proxy answers 429/503 k times, k
\* within the retry budget, and then 200 {text: t}, callGemini returns t after
\* exactly k proxy retries, and no request ever goes to the provider directly.
\* (A call that ends on a retryable answer has seen more than the budget of
\* them, so k <= 3 retryable answers never end the call.)
C1_ProxyRetriesThenText ==
  ~isLocal =>
    /\ directReqs = 0
    /\ (Done /\ ProxyRetryableStatus(last.status)) => retryable > ProxyRetryLimit
    /\ (Done /\ last.status = 200 /\ last.shape = "text") =>
         /\ result = Returned(last.text)
         /\ retryCount = retryable
         /\ proxyReqs = retryable + 1
         /\ retryable <= ProxyRetryLimit

\* 503/429, 503/429, 200 {text: "hello"}: "hello" after exactly 2 retries
C1_Witness ==
  /\ ~isLocal /\ Done
  /\ retryable = 2 /\ retryCount = 2 /\ proxyReqs = 3 /\ directReqs = 0
  /\ result = Returned("hello")

\* C2 (as amended): when the proxy answers 404, or any other status that is
\* neither 2xx nor 429/503, the dispatcher does not go to the direct
\* transport: it fails at once with the 'direct calls are disabled in
\* production' error, without waiting and without consuming a proxy retry.
C2_ProxyFailureNeverGoesDirect ==
  (~isLocal /\ last.status >= 300 /\ ~ProxyRetryableStatus(last.status)) =>
    /\ directReqs = 0
    /\ lastWait = 0
    /\ retryCount = retryable
    /\ pc \in {"step2", "done"}
    /\ Done => result = Thrown(Err("DirectDisabledInProduction", FALSE))

C2_Witness ==
  /\ ~isLocal /\ Done /\ last.status = 404 /\ retryCount = 0 /\ proxyReqs = 1
  /\ result = Thrown(Err("DirectDisabledInProduction", FALSE))

\* C2 as claimed: a call that ended after a non-retryable proxy failure (404
\* included) has attempted the direct transport, and did not end in the
\* refusal to do so.
C2_AsClaimed ==
  (~isLocal /\ Done /\ last.status >= 300 /\ ~ProxyRetryableStatus(last.status)) =>
    /\ directReqs >= 1
    /\ result # Thrown(Err("DirectDisabledInProduction", FALSE))

\* C3 (as amended): for a proxy that answers 429 or 503 on every request, one
\* logical call makes at most 4 proxy requests (the first and 3 retries),
\* waits 2000 ms x retry number (2000, 4000, 6000) before each retry, and
\* then stops retrying the proxy.
C3_ProxyRetryBudget ==
  ~isLocal =>
    /\ proxyReqs <= ProxyRetryLimit + 1
    /\ (pc \in {"callGemini", "awaitProxy"} /\ retryCount > 0) =>
         lastWait = 2000 * retryCount
    /\ (Done /\ retryable = proxyReqs) =>
         /\ proxyReqs = ProxyRetryLimit + 1
         /\ retryCount = ProxyRetryLimit
         /\ result.kind = "error"

C3_Witness ==
  /\ ~isLocal /\ Done /\ retryable = 4 /\ proxyReqs = 4 /\ retryCount = 3

\* C3 as claimed: at most 3 proxy requests in total per logical call
C3_AsClaimed == proxyReqs <= 3

\* C4 (as amended): for a provider that answers every direct call with 429,
\* one logical call makes at most 6 direct attempts (the first and 5 retries)
\* and then fails with the 'quota exceeded' error, an error no other failure
\* raises.
C4_QuotaExhaustion ==
  isLocal =>
    /\ directReqs <= DirectRetryLimit + 1
    /\ (Done /\ directReqs > 0 /\ quota429 = directReqs) =>
         /\ directReqs = DirectRetryLimit + 1
         /\ result.kind = "error"
         /\ result.err.tag = "QuotaExceeded"
    /\ (Done /\ last.status = 429) => result.err.tag = "QuotaExceeded"
    /\ (Done /\ last.status # 429) => result.err.tag # "QuotaExceeded"

C4_Witness ==
  /\ isLocal /\ Done /\ quota429 = 6 /\ directReqs = 6
  /\ result.err.tag = "QuotaExceeded"

\* C4 as claimed: at most 5 direct attempts per logical call
C4_AsClaimed == directReqs <= 5

\* C5 (as amended): when a direct call is answered with 429 whose message
\* contains 'retry in Ns' and fewer than 5 retries are spent, the dispatcher
\* waits N seconds plus 1 second rounded to the nearest whole second (5 s for
\* 'retry in 3.5s'), in steps of one second, and then sends one more request.
C5_HintedWait ==
  (isLocal /\ last.status = 429 /\ last.shape = "hint") =>
    IF Done THEN retryCount = DirectRetryLimit
    ELSE /\ lastWait = ((((last.hintUs + 999) \div 1000) + 1000 + 500) \div 1000) * 1000
         /\ last.hintUs = 3500000 => lastWait = 5000
         /\ last.hintUs = 2000000 => lastWait = 3000
         /\ pc = "callGemini" => directReqs = retryCount
         /\ pc = "awaitDirect" => directReqs = retryCount + 1

C5_Witness ==
  /\ isLocal /\ pc = "awaitDirect"
  /\ last = Resp(429, "hint", "", 3500000)
  /\ lastWait = 5000 /\ retryCount = 1 /\ directReqs = 2

\* C5 as claimed: the wait is N seconds plus one second (4.5 s for 3.5 s)
C5_AsClaimed ==
  (isLocal /\ last.status = 429 /\ last.shape = "hint" /\ ~Done) =>
    lastWait = ((last.hintUs + 999) \div 1000) + 1000

\* C6 (as amended): a 'Failed to fetch' failure of a direct call is retried,
\* after one second, only while the call's one retry counter is below 2; the
\* quota retries already spent in the call count against it, and once the
\* counter has reached 2 the error propagates to the caller.
C6_NetworkRetrySharesCounter ==
  /\ netRetries <= NetworkRetryLimit
  /\ (isLocal /\ last = FailedToFetch) =>
       IF Done THEN /\ retryCount >= 2
                    /\ result = Thrown(Err("NetworkError", TRUE))
       ELSE /\ retryCount <= 2
            /\ netRetries >= 1
            /\ lastWait = 1000

\* two quota retries first, then the network failure is not retried at all
C6_Witness ==
  /\ isLocal /\ Done /\ last = FailedToFetch
  /\ netRetries = 0 /\ retryCount = 2 /\ quota429 = 2

\* C6 as claimed: the network failure has its own budget of 2, so the error
\* propagates only after 2 network retries, whatever else was retried
C6_AsClaimed ==
  (isLocal /\ Done /\ last = FailedToFetch) => netRetries = 2

NoCredential == IF isLocal THEN ~localApiKey ELSE ~GEMINI_API_KEY

\* C7 (as amended): when no credential is configured no request reaches the
\* provider and nothing is retried: on localhost the call fails with the
\* distinct 'not configured' error before any network request; elsewhere the
\* client does send its request to the proxy, the handler answers 500 'no
\* key configured' without calling the provider, and the call ends with the
\* 'direct calls are disabled' error.
C7_NoCredential ==
  /\ NoCredential => (directReqs = 0 /\ upstreamReqs = 0)
  /\ (isLocal /\ ~localApiKey) =>
       /\ proxyReqs = 0 /\ retryCount = 0
       /\ Done => result = Thrown(Err("NotConfigured", FALSE))
  /\ (~isLocal /\ ~GEMINI_API_KEY /\ resp.status = 500) => resp.text = "NoKeyOnServer"
  /\ (~isLocal /\ ~GEMINI_API_KEY /\ last.status = 500) =>
       /\ last.text = "NoKeyOnServer"
       /\ lastWait = 0 /\ retryCount = retryable
       /\ pc \in {"step2", "done"}
       /\ Done => result = Thrown(Err("DirectDisabledInProduction", FALSE))
  /\ result.err.tag = "NotConfigured" => (isLocal /\ ~localApiKey)

C7_Witness ==
  /\ ~isLocal /\ ~GEMINI_API_KEY /\ Done
  /\ last = Resp(500, "error", "NoKeyOnServer", 0)
  /\ proxyReqs = 1 /\ upstreamReqs = 0

\* C7 as claimed: no network request at all, and the 'not configured' error
C7_AsClaimed ==
  NoCredential =>
    /\ proxyReqs = 0 /\ directReqs = 0 /\ upstreamReqs = 0
    /\ Done => result = Thrown(Err("NotConfigured", FALSE))

\* C8: a dispatch with an empty or malformed message list is rejected with an
\* error before any network request: nothing reaches the proxy from the
\* client, nothing reaches the provider from the handler or the client.
C8_EmptyOrMalformedRejected ==
  (pc # "idle" /\ (~messages.isArray \/ Len(messages.items) = 0)) =>
    /\ proxyReqs = 0 /\ upstreamReqs = 0 /\ directReqs = 0
    /\ Done => result.kind = "error"

\* C9 (as amended): a direct-transport response with a status other than 429,
\* 503 and 404 (400, 401, 403, ...) whose message does not contain 'Failed to
\* fetch' is surfaced to the caller after that single provider call, with no
\* wait and no further attempt; 404 is retried like 429 and 503.
C9_TerminalStatusSurfaces ==
  (isLocal /\ last.status >= 300 /\ last.status \notin {429, 503, 404}
     /\ last.shape # "ftfMessage") =>
    /\ Done
    /\ lastWait = 0
    /\ result.kind = "error"
    /\ result.err.tag \in {"ProviderMessage", "ApiErrorStatus", "GeminiApiErrorStatus"}

C9_Witness ==
  /\ isLocal /\ Done /\ last.status = 403 /\ retryCount = 0 /\ directReqs = 1
  /\ result.kind = "error"

\* C9 as claimed: every status other than 429 and 503 (404 included)
C9_AsClaimed ==
  (isLocal /\ last.status >= 300 /\ last.status \notin {429, 503}) =>
    (Done /\ lastWait = 0 /\ result.kind = "error")

\* C10: a 200 response without candidates[0].content.parts[0].text is a
\* terminal error, reported to the caller and not sent again, on the direct
\* path and through the proxy handler alike.
C10_MissingTextIsTerminalError ==
  /\ (isLocal /\ last.status = 200 /\ last.shape # "text") =>
       (Done /\ result.kind = "error")
  /\ (~isLocal /\ upstream.status = 200 /\ upstream.shape # "text"
        /\ pc # "awaitProxy") =>
       (pc \in {"step2", "done"} /\ (Done => result.kind = "error"))

(***************************************************************************)
(* The handler's statuses and the credential pool.                         *)
(***************************************************************************)
RetryableStatuses == {429, 503}

\* C11: the handler's failure response carries a status that reflects the
\* failure class: 429/503 when the provider answered 429 or 503, so that the
\* client's proxy retry is taken, and a non-retryable status for every other
\* failure.
C11_HandlerStatusReflectsClass ==
  (~isLocal /\ upstream # NoResponse /\ resp # NoResponse) =>
    /\ upstream.status \in RetryableStatuses => resp.status \in RetryableStatuses
    /\ (upstream.status \notin RetryableStatuses /\ ~IsOk(resp)) =>
         resp.status \notin RetryableStatuses

\* the credentials configured for the transport in use: the first key and
\* the further numbered ones
PoolSize ==
  (IF (IF isLocal THEN localApiKey ELSE GEMINI_API_KEY) THEN 1 ELSE 0) + extraKeys

KeysTried == {keyLog[i] : i \in 1..Len(keyLog)}

\* every answer of the provider in this call was a failover-eligible failure
EveryCredentialFailsOver ==
  IF isLocal THEN directReqs > 0 /\ quota429 = directReqs
  ELSE upstreamReqs > 0 /\ upstream.status \in RetryableStatuses

\* C12: with a pool of N credentials and a failover-eligible failure on every
\* credential, a logical call has tried the N distinct credentials of the pool
\* when it surfaces the error.
C12_RotationTriesEveryCredential ==
  (Done /\ EveryCredentialFailsOver) => KeysTried = 1..PoolSize

\* the message a failed provider answer carries (error.message, or what
\* stands for it when the body has none)
MessageOnDirectPath(r) ==
  IF r.shape = "unparseable" THEN "ApiErrorStatus"
  ELSE IF r.shape = "noMessage" THEN "GeminiApiErrorStatus"
  ELSE "ProviderMessage"

MessageInHandler(r) ==
  IF r.shape = "unparseable" THEN "SyntaxError"
  ELSE IF r.shape = "noMessage" THEN "GeminiApiErrorStatus"
  ELSE "ProviderMessage"

MaxTurns == 3

TContents == {"a", "b"}

TMessage == [role : Roles, content : TContents]

TranslateInputs == UNION {[1..k -> TMessage] : k \in 0..MaxTurns}

Turn(role, text) == [role |-> role, text |-> text]

\* `System: ${message.content}\n\n`
SystemText(m) == <<"System: ", m.content, "\n\n">>

\* (variant: the system text is put behind the first turn's text)
TranslateStepAppendMutant(out, m) ==
  IF m.role = "system" THEN
    IF Len(out) = 0 THEN Append(out, Turn("user", SystemText(m)))
    ELSE [out EXCEPT ![1].text = @ \o SystemText(m)]
  ELSE IF m.role = "user" THEN Append(out, Turn("user", <<m.content>>))
  ELSE IF m.role = "assistant" THEN Append(out, Turn("model", <<m.content>>))
  ELSE out

\* one round of the handler's loop over messages
TranslateStep(out, m) ==
  IF m.role = "system" THEN
    IF Len(out) = 0 THEN Append(out, Turn("user", SystemText(m)))
    ELSE [out EXCEPT ![1].text = SystemText(m) \o @]
  ELSE IF m.role = "user" THEN Append(out, Turn("user", <<m.content>>))
  ELSE IF m.role = "assistant" THEN Append(out, Turn("model", <<m.content>>))
  ELSE out

\* geminiMessages of the handler
RECURSIVE HandlerLoop(_, _)
HandlerLoop(msgs, k) ==
  IF k = 0 THEN << >> ELSE TranslateStep(HandlerLoop(msgs, k - 1), msgs[k])

HandlerContents(msgs) == HandlerLoop(msgs, Len(msgs))

\* (variant: the assistant role is passed on unchanged)
ClientTurnMutant(m) == Turn(IF m.role = "system" THEN "user" ELSE m.role, <<m.content>>)

\* msg => ({role: msg.role === 'assistant' ? 'model' : 'user', parts: [{text}]})
ClientTurn(m) == Turn(IF m.role = "assistant" THEN "model" ELSE "user", <<m.content>>)

\* geminiMessages of callGemini: messages.map
ClientContents(msgs) == [i \in 1..Len(msgs) |-> ClientTurn(msgs[i])]

\* the state of a logical call while a pure function is applied alone
CallIdle ==
  /\ isLocal = FALSE
  /\ localApiKey = FALSE
  /\ GEMINI_API_KEY = FALSE
  /\ extraKeys = 0
  /\ keyLog = << >>
  /\ messages = ArrayOf(<< >>)
  /\ pc = "idle"
  /\ retryCount = 0
  /\ resp = NoResponse
  /\ result = NoResult
  /\ last = NoResponse
  /\ lastWait = 0
  /\ proxyReqs = 0
  /\ directReqs = 0
  /\ upstreamReqs = 0
  /\ upstream = NoResponse
  /\ retryable = 0
  /\ quota429 = 0
  /\ netRetries = 0

callVars ==
  <<config, keyLog, messages, pc, retryCount, resp, result, last, lastWait, counters>>

InitTranslate ==
  /\ CallIdle
  /\ DashboardIdle
  /\ DbIdle
  /\ phase = "input"
  /\ tIn \in TranslateInputs
  /\ tHandler = << >>
  /\ tClient = << >>
  /\ jCase = << >>
  /\ jIn = << >>
  /\ jOut = << >>
  /\ jAgain = << >>

\* the handler translates the list
translateHandler ==
  /\ phase = "input"
  /\ tHandler' = HandlerContents(tIn)
  /\ phase' = "handler"
  /\ UNCHANGED <<callVars, appVars, tIn, tClient, jCase, jIn, jOut, jAgain>>

\* the client translates the same list
translateClient ==
  /\ phase = "handler"
  /\ tClient' = ClientContents(tIn)
  /\ phase' = "output"
  /\ UNCHANGED <<callVars, appVars, tIn, tHandler, jCase, jIn, jOut, jAgain>>

NextTranslate == translateHandler \/ translateClient

SpecTranslate == InitTranslate /\ [][NextTranslate]_vars

Translated == phase = "output"

IsSystem(m) == m.role = "system"

IsPrefix(p, t) == Len(p) <= Len(t) /\ SubSeq(t, 1, Len(p)) = p

IsSuffix(p, t) == Len(p) <= Len(t) /\ SubSeq(t, Len(t) - Len(p) + 1, Len(t)) = p

\* C14: for a list of exactly one system message S and then one user message
\* U, the first turn of the translated contents has the text
\* "System: " + S.content + "\n\n" + U.content.
C14_SystemFoldedIntoUserTurn ==
  (Translated /\ Len(tIn) = 2 /\ tIn[1].role = "system" /\ tIn[2].role = "user") =>
    /\ tHandler[1].text = <<"System: ", tIn[1].content, "\n\n", tIn[2].content>>
    /\ tClient[1].text = <<"System: ", tIn[1].content, "\n\n", tIn[2].content>>

BeginsWithTwoSystems ==
  Len(tIn) >= 2 /\ IsSystem(tIn[1]) /\ IsSystem(tIn[2])

NoThirdSystem == \A i \in 3..Len(tIn) : ~IsSystem(tIn[i])

\* C15 (as amended): for every message list that begins with two system
\* messages S1, S2 and holds no further system message, the handler's first
\* turn has the text "System: " + S2 + "\n\n" + "System: " + S1 + "\n\n"; when
\* more system messages follow, theirs are put ahead of it, so that the text
\* still ends with the labelled text of S2 followed by that of S1.
C15_SecondSystemAhead ==
  (Translated /\ BeginsWithTwoSystems) =>
    /\ tHandler[1].role = "user"
    /\ IsSuffix(SystemText(tIn[2]) \o SystemText(tIn[1]), tHandler[1].text)
    /\ NoThirdSystem =>
         tHandler[1].text = <<"System: ", tIn[2].content, "\n\n",
                              "System: ", tIn[1].content, "\n\n">>

C15_Witness ==
  /\ Translated
  /\ tIn = <<[role |-> "system", content |-> "a"], [role |-> "system", content |-> "b"],
             [role |-> "user", content |-> "a"]>>
  /\ tHandler[1].text = <<"System: ", "b", "\n\n", "System: ", "a", "\n\n">>

\* C15 as claimed: whatever follows the two system messages, the first turn's
\* text starts with the labelled text of S2 followed by that of S1
C15_AsClaimed ==
  (Translated /\ BeginsWithTwoSystems) =>
    IsPrefix(SystemText(tIn[2]) \o SystemText(tIn[1]), tHandler[1].text)

CarriesSystemPreface(turn) ==
  \E i \in 1..Len(turn.text) : turn.text[i] = "System: "

\* C16: in every translation each turn whose text carries a "System: "
\* preface has the role 'user'.
C16_SystemTextInUserTurnsOnly ==
  Translated =>
    /\ \A i \in 1..Len(tHandler) :
         CarriesSystemPreface(tHandler[i]) => tHandler[i].role = "user"
    /\ \A i \in 1..Len(tClient) :
         CarriesSystemPreface(tClient[i]) => tClient[i].role = "user"

NotSystem(m) == m.role # "system"

NonSystem(msgs) == SelectSeq(msgs, NotSystem)

\* the turn the handler creates for a leading system message
SyntheticTurns(msgs) == IF Len(msgs) > 0 /\ IsSystem(msgs[1]) THEN 1 ELSE 0

RoleOfTurn(m) == IF m.role = "assistant" THEN "model" ELSE "user"

\* C17: translation preserves conversation order: the non-system messages
\* appear as output turns in the same relative order, one turn each, a user
\* message as a 'user' turn and an assistant message as a 'model' turn with
\* its content verbatim; only the turn that received folded system text (the
\* handler's first turn) has more text than its message, in front of it.
C17_OrderPreserved ==
  Translated =>
    /\ Len(tHandler) = SyntheticTurns(tIn) + Len(NonSystem(tIn))
    /\ \A i \in 1..Len(NonSystem(tIn)) :
         LET m == NonSystem(tIn)[i]
             t == tHandler[SyntheticTurns(tIn) + i]
         IN /\ t.role = RoleOfTurn(m)
            /\ IF SyntheticTurns(tIn) + i = 1 /\ (\E k \in 1..Len(tIn) : IsSystem(tIn[k]))
                 THEN IsSuffix(<<m.content>>, t.text)
               ELSE t.text = <<m.content>>
    /\ Len(tClient) = Len(tIn)
    /\ \A k \in 1..Len(tIn) :
         NotSystem(tIn[k]) =>
           (tClient[k].role = RoleOfTurn(tIn[k]) /\ tClient[k].text = <<tIn[k].content>>)

C17_Witness ==
  /\ Translated
  /\ tIn = <<[role |-> "user", content |-> "a"], [role |-> "system", content |-> "b"],
             [role |-> "assistant", content |-> "b"]>>
  /\ tHandler = <<Turn("user", <<"System: ", "b", "\n\n", "a">>), Turn("model", <<"b">>)>>
  /\ tClient[3] = Turn("model", <<"b">>)

(***************************************************************************)
(* cleanJsonResponse (ai-service.ts 148-215), applied alone.  A string is  *)
(* the sequence of its characters.                                         *)
(***************************************************************************)
\* deepest nesting of arrays and objects below the top-level object
MaxDepth == 2

\* the character U+0060 (grave accent), which a string of this notation cannot hold
Backtick == "U+0060"

Fence == <<Backtick, Backtick, Backtick>>

JsonFence == Fence \o <<"j", "s", "o", "n">>

\* what String.prototype.trim removes, as far as it occurs here
Whitespace == {" ", "\n", "\r", "\t"}

MatchesAt(s, i, pat) ==
  i + Len(pat) - 1 <= Len(s) /\ SubSeq(s, i, i + Len(pat) - 1) = pat

\* s.includes(pat)
Includes(s, pat) == \E i \in 1..Len(s) : MatchesAt(s, i, pat)

\* s.replace(/pat\n?/g, ''), from the i-th character on
RECURSIVE RemoveFrom(_, _, _)
RemoveFrom(s, pat, i) ==
  IF i > Len(s) THEN << >>
  ELSE IF MatchesAt(s, i, pat) THEN
    LET j == i + Len(pat)
    IN RemoveFrom(s, pat, IF j <= Len(s) /\ s[j] = "\n" THEN j + 1 ELSE j)
  ELSE <<s[i]>> \o RemoveFrom(s, pat, i + 1)

RemoveAll(s, pat) == RemoveFrom(s, pat, 1)

\* 1. Remove markdown code blocks if present
StripFences(content) ==
  IF Includes(content, JsonFence) THEN RemoveAll(RemoveAll(content, JsonFence), Fence)
  ELSE IF Includes(content, Fence) THEN RemoveAll(content, Fence)
  ELSE content

\* s.indexOf(c): counted from 0, -1 when absent
IndexOf(s, c) ==
  IF \E i \in 1..Len(s) : s[i] = c
    THEN (CHOOSE i \in 1..Len(s) : s[i] = c /\ \A k \in 1..(i - 1) : s[k] # c) - 1
  ELSE -1

RECURSIVE TrimStart(_)
TrimStart(s) ==
  IF Len(s) > 0 /\ s[1] \in Whitespace THEN TrimStart(Tail(s)) ELSE s

RECURSIVE TrimEnd(_)
TrimEnd(s) ==
  IF Len(s) > 0 /\ s[Len(s)] \in Whitespace
    THEN TrimEnd(SubSeq(s, 1, Len(s) - 1))
  ELSE s

\* (variant: trimStart only)
TrimMutant(s) == TrimStart(s)

\* s.trim()
Trim(s) == TrimEnd(TrimStart(s))

\* stack, result, inString, escaped before the loop
ScanStart ==
  [stack |-> << >>, result |-> << >>, inString |-> FALSE, escaped |-> FALSE]

\* one round of the loop over the characters
ScanStep(st, char) ==
  IF st.inString /\ char \in {"\n", "\r"}
    THEN [st EXCEPT !.result = @ \o <<"\\", "n">>]
  ELSE
    LET inStr == IF char = "\"" /\ ~st.escaped THEN ~st.inString ELSE st.inString
        stk == IF inStr THEN st.stack
               ELSE IF char = "{" THEN Append(st.stack, "}")
               ELSE IF char = "[" THEN Append(st.stack, "]")
               ELSE IF /\ char \in {"}", "]"}
                       /\ Len(st.stack) > 0
                       /\ st.stack[Len(st.stack)] = char
                      THEN SubSeq(st.stack, 1, Len(st.stack) - 1)
               ELSE st.stack
    IN [stack |-> stk,
        result |-> Append(st.result, char),
        inString |-> inStr,
        escaped |-> (char = "\\" /\ ~st.escaped)]

RECURSIVE Scan(_, _)
Scan(s, k) == IF k = 0 THEN ScanStart ELSE ScanStep(Scan(s, k - 1), s[k])

\* 6. while (stack.length > 0) trimmedResult += stack.pop()
RECURSIVE PopAll(_)
PopAll(stack) ==
  IF Len(stack) = 0 THEN << >>
  ELSE <<stack[Len(stack)]>> \o PopAll(SubSeq(stack, 1, Len(stack) - 1))

cleanJsonResponse(content) ==
  LET cleaned == StripFences(content)
      firstBrace == IndexOf(cleaned, "{")
  IN IF firstBrace = -1 THEN Trim(cleaned)
     ELSE
       LET rest == SubSeq(cleaned, firstBrace + 1, Len(cleaned))
           st == Scan(rest, Len(rest))
           closed == IF st.inString THEN Trim(st.result) \o <<"\"">> ELSE Trim(st.result)
           noComma == IF Len(closed) > 0 /\ closed[Len(closed)] = ","
                        THEN SubSeq(closed, 1, Len(closed) - 1)
                      ELSE closed
       IN Trim(noComma \o PopAll(st.stack))

(***************************************************************************)
(* The contents repaired: well-formed JSON objects built from strings,     *)
(* a number, arrays and objects, written compactly or with a blank after   *)
(* ':' and ','; the same inside a fence; and the same cut off inside a     *)
(* string value.                                                           *)
(***************************************************************************)
\* bodies of string values without escape sequences
PlainBodies ==
  {<<"x">>, <<"x", " ">>, <<"{">>, <<"x", "]">>, <<"x", ",">>, Fence}

\* bodies with an escaped quote, an escaped backslash
StringBodies ==
  PlainBodies \cup {<<"\\", "\"">>, <<"\\", "\\">>, <<"x", "\\", "\"", "}">>}

Str(b) == <<"\"">> \o b \o <<"\"">>

Colon(sp) == IF sp THEN <<":", " ">> ELSE <<":">>

Comma(sp) == IF sp THEN <<",", " ">> ELSE <<",">>

ArrOpen(sp) == <<"[", "1">> \o Comma(sp)

ObjOpen(key, sp) == <<"{">> \o Str(<<key>>) \o Colon(sp)

Arr(v, sp) == ArrOpen(sp) \o v \o <<"]">>

Obj(key, v, sp) == ObjOpen(key, sp) \o v \o <<"}">>

RECURSIVE Values(_, _)
Values(d, sp) ==
  LET atoms == {Str(b) : b \in StringBodies} \cup {<<"1">>}
  IN IF d = 0 THEN atoms
     ELSE atoms \cup {Arr(v, sp) : v \in Values(d - 1, sp)}
                \cup {Obj("b", v, sp) : v \in Values(d - 1, sp)}

Docs(sp) == {Obj("a", v, sp) : v \in Values(MaxDepth, sp)}

Prefixes(b) == {SubSeq(b, 1, k) : k \in 0..Len(b)}

\* a value cut off inside a string value, with the closers then due
RECURSIVE CutValues(_, _)
CutValues(d, sp) ==
  LET atoms == {[text |-> <<"\"">> \o p, closers |-> << >>] :
                  p \in UNION {Prefixes(b) : b \in PlainBodies}}
  IN IF d = 0 THEN atoms
     ELSE atoms
          \cup {[text |-> ArrOpen(sp) \o c.text, closers |-> c.closers \o <<"]">>] :
                  c \in CutValues(d - 1, sp)}
          \cup {[text |-> ObjOpen("b", sp) \o c.text, closers |-> c.closers \o <<"}">>] :
                  c \in CutValues(d - 1, sp)}

RepairCase(kind, sp, doc, text, closers) ==
  [kind |-> kind, spaced |-> sp, doc |-> doc, text |-> text, closers |-> closers]

RepairCases ==
  UNION {
    {RepairCase("whole", sp, j, j, << >>) : j \in Docs(sp)}
    \cup {RepairCase("tagged", sp, j, JsonFence \o <<"\n">> \o j \o <<"\n">> \o Fence, << >>) :
            j \in Docs(sp)}
    \cup {RepairCase("bare", sp, j, Fence \o <<"\n">> \o j \o <<"\n">> \o Fence, << >>) :
            j \in Docs(sp)}
    \cup {RepairCase("cut", sp, ObjOpen("a", sp) \o c.text, ObjOpen("a", sp) \o c.text,
                     c.closers \o <<"}">>) : c \in CutValues(MaxDepth, sp)}
    : sp \in BOOLEAN}

InitRepair ==
  /\ CallIdle
  /\ DashboardIdle
  /\ DbIdle
  /\ phase = "input"
  /\ tIn = << >>
  /\ tHandler = << >>
  /\ tClient = << >>
  /\ jCase \in RepairCases
  /\ jIn = jCase.text
  /\ jOut = << >>
  /\ jAgain = << >>

\* cleanJsonResponse(content)
repair ==
  /\ phase = "input"
  /\ jOut' = cleanJsonResponse(jIn)
  /\ phase' = "output"
  /\ UNCHANGED <<callVars, appVars, tIn, tHandler, tClient, jCase, jIn, jAgain>>

NextRepair == repair

SpecRepair == InitRepair /\ [][NextRepair]_vars

Repaired == phase = "output"

RECURSIVE StripWs(_)
StripWs(s) ==
  IF Len(s) = 0 THEN << >>
  ELSE IF s[1] \in Whitespace THEN StripWs(Tail(s))
  ELSE <<s[1]>> \o StripWs(Tail(s))

\* C18: response repair is the identity on valid JSON: for every well-formed
\* compact JSON object j, whatever its string values hold (escaped quotes,
\* backslashes, braces, backticks), cleanJsonResponse(j) equals j modulo
\* whitespace.
C18_IdentityOnValidJson ==
  (Repaired /\ jCase.kind = "whole" /\ ~jCase.spaced) =>
    StripWs(jOut) = StripWs(jIn)

\* C19: for every well-formed JSON object without escape sequences cut off
\* inside a string value, cleanJsonResponse appends a closing quote and then
\* one closer per still-open '{' or '[' in reverse order of opening, leaving
\* everything before the cut as it was.
C19_ClosesUnbalanced ==
  (Repaired /\ jCase.kind = "cut") =>
    jOut = jIn \o <<"\"">> \o jCase.closers

\* C20: for every well-formed JSON object J without backticks,
\* cleanJsonResponse of J inside a language-tagged fence (```json, newline, J,
\* newline, ```) or inside a bare ``` fence returns exactly J.
C20_StripsFencing ==
  (Repaired /\ jCase.kind \in {"tagged", "bare"} /\ ~Includes(jCase.doc, <<Backtick>>)) =>
    jOut = jCase.doc

C20_Witness ==
  /\ Repaired
  /\ jCase.kind = "tagged"
  /\ jCase.doc = Obj("a", Arr(Obj("b", Str(<<"x", "\\", "\"", "}">>), TRUE), TRUE), TRUE)
  /\ jIn = JsonFence \o <<"\n">> \o jCase.doc \o <<"\n">> \o Fence
  /\ jOut = jCase.doc

(***************************************************************************)
(* cleanJsonResponse on contents that are not a whole JSON object: an      *)
(* object cut off anywhere, an object between prose, an object with line   *)
(* breaks in it; and cleanJsonResponse applied to its own result.          *)
(***************************************************************************)
True == <<"t", "r", "u", "e">>

\* objects with a literal and a second member
LiteralDocs(sp) ==
  {<<"{">> \o Str(<<"a">>) \o Colon(sp) \o True \o Comma(sp)
     \o Str(<<"b">>) \o Colon(sp) \o v \o <<"}">> : v \in Values(0, sp)}

TruncDocs(sp) == Docs(sp) \cup LiteralDocs(sp)

\* prose without braces, brackets, quotes or backticks
ProseBefore == {<< >>, <<"x", " ">>}

ProseAfter == {<< >>, <<" ", "x">>, <<"\n", "x">>}

LineBreaks == {"\n", "\r"}

BreakDocs(sp) == {Obj("a", v, sp) : v \in Values(MaxDepth - 1, sp)}

AnyCases ==
  UNION {
    {RepairCase("trunc", sp, j, SubSeq(j, 1, k), << >>) :
       <<j, k>> \in UNION {{j} \X (1..(Len(j) - 1)) : j \in TruncDocs(sp)}}
    \cup {RepairCase("prose", sp, j, pre \o j \o post, << >>) :
            <<j, pre, post>> \in Docs(sp) \X ProseBefore \X ProseAfter}
    \cup {RepairCase("broken", sp, j,
                     SubSeq(j, 1, k) \o <<lb>> \o SubSeq(j, k + 1, Len(j)), << >>) :
            <<j, k, lb>> \in UNION {{j} \X (1..(Len(j) - 1)) \X LineBreaks :
                                      j \in BreakDocs(sp)}}
    : sp \in BOOLEAN}

InitRepairAny ==
  /\ CallIdle
  /\ DashboardIdle
  /\ DbIdle
  /\ phase = "input"
  /\ tIn = << >>
  /\ tHandler = << >>
  /\ tClient = << >>
  /\ jCase \in AnyCases
  /\ jIn = jCase.text
  /\ jOut = << >>
  /\ jAgain = << >>

\* cleanJsonResponse(cleanJsonResponse(content))
repairAgain ==
  /\ phase = "output"
  /\ jAgain' = cleanJsonResponse(jOut)
  /\ phase' = "again"
  /\ UNCHANGED <<callVars, appVars, tIn, tHandler, tClient, jCase, jIn, jOut>>

NextRepairAny == repair \/ repairAgain

SpecRepairAny == InitRepairAny /\ [][NextRepairAny]_vars

(***************************************************************************)
(* JSON.parse, as far as its grammar goes: whether a text is one JSON      *)
(* value.  Each operator yields the position after what it read, 0 when    *)
(* the text is not of the grammar.                                         *)
(***************************************************************************)
Digits == {"0", "1", "2", "3", "4", "5", "6", "7", "8", "9"}

Escapable == {"\"", "\\", "/", "b", "f", "n", "r", "t"}

ControlChars == {"\n", "\r", "\t"}

RECURSIVE SkipWs(_, _)
SkipWs(s, i) ==
  IF i <= Len(s) /\ s[i] \in Whitespace THEN SkipWs(s, i + 1) ELSE i

RECURSIVE StringEnd(_, _)
StringEnd(s, i) ==
  IF i > Len(s) THEN 0
  ELSE IF s[i] = "\"" THEN i + 1
  ELSE IF s[i] = "\\" THEN
    IF i + 1 <= Len(s) /\ s[i + 1] \in Escapable THEN StringEnd(s, i + 2) ELSE 0
  ELSE IF s[i] \in ControlChars THEN 0
  ELSE StringEnd(s, i + 1)

RECURSIVE NumberEnd(_, _)
NumberEnd(s, i) ==
  IF i <= Len(s) /\ s[i] \in Digits THEN NumberEnd(s, i + 1) ELSE i

RECURSIVE ValueEnd(_, _)
RECURSIVE MembersEnd(_, _)
RECURSIVE ElementsEnd(_, _)

ValueEnd(s, from) ==
  LET i == SkipWs(s, from)
  IN IF i > Len(s) THEN 0
     ELSE IF s[i] = "\"" THEN StringEnd(s, i + 1)
     ELSE IF s[i] = "{" THEN
       LET j == SkipWs(s, i + 1)
       IN IF j <= Len(s) /\ s[j] = "}" THEN j + 1 ELSE MembersEnd(s, j)
     ELSE IF s[i] = "[" THEN
       LET j == SkipWs(s, i + 1)
       IN IF j <= Len(s) /\ s[j] = "]" THEN j + 1 ELSE ElementsEnd(s, j)
     ELSE IF s[i] \in Digits THEN NumberEnd(s, i)
     ELSE IF MatchesAt(s, i, True) THEN i + Len(True)
     ELSE 0

MembersEnd(s, i) ==
  IF i > Len(s) \/ s[i] # "\"" THEN 0
  ELSE
    LET k == StringEnd(s, i + 1)
        c == SkipWs(s, k)
    IN IF k = 0 \/ c > Len(s) \/ s[c] # ":" THEN 0
       ELSE
         LET v == ValueEnd(s, c + 1)
             e == SkipWs(s, v)
         IN IF v = 0 \/ e > Len(s) THEN 0
            ELSE IF s[e] = "}" THEN e + 1
            ELSE IF s[e] = "," THEN MembersEnd(s, SkipWs(s, e + 1))
            ELSE 0

ElementsEnd(s, i) ==
  LET v == ValueEnd(s, i)
      e == SkipWs(s, v)
  IN IF v = 0 \/ e > Len(s) THEN 0
     ELSE IF s[e] = "]" THEN e + 1
     ELSE IF s[e] = "," THEN ElementsEnd(s, e + 1)
     ELSE 0

\* JSON.parse(text) does not throw
ParsesAsJson(s) ==
  LET e == ValueEnd(s, 1)
  IN e # 0 /\ SkipWs(s, e) = Len(s) + 1

\* C21: the repaired text is always syntactically well-formed: for every
\* truncation, at any character position after the first '{', of a
\* well-formed JSON object, cleanJsonResponse returns text that parses as
\* JSON.
C21_RepairedTextParses ==
  (phase # "input" /\ jCase.kind = "trunc") => ParsesAsJson(jOut)

\* C22: cleanJsonResponse extracts only the JSON part: for every content
\* prefix + J + suffix, J a well-formed JSON object between prose without
\* braces, brackets, quotes or backticks, the result equals J.
C22_ExtractsOnlyJson ==
  (phase # "input" /\ jCase.kind = "prose") => jOut = jCase.doc

\* C23: in the scan every line break (LF or CR) inside a string becomes the
\* two characters backslash and n, a line break outside strings is left as
\* it is, and after the line break inString and escaped are what they would
\* be had the two-character escape been in the input.
C23_LineBreakKeepsTracking ==
  (phase # "input" /\ jCase.kind = "broken") =>
    \A k \in 1..Len(jIn) :
      jIn[k] \in LineBreaks =>
        LET before == Scan(jIn, k - 1)
            after == Scan(jIn, k)
            asEscape == ScanStep(ScanStep(before, "\\"), "n")
        IN IF before.inString
             THEN /\ after.result = before.result \o <<"\\", "n">>
                  /\ after.inString = asEscape.inString
                  /\ after.escaped = asEscape.escaped
           ELSE /\ after.result = Append(before.result, jIn[k])
                /\ ~after.inString

\* C27: cleanJsonResponse is idempotent on arbitrary text:
\* cleanJsonResponse(cleanJsonResponse(x)) equals cleanJsonResponse(x).
C27_Idempotent ==
  phase = "again" => jAgain = jOut

(***************************************************************************)
(* The logical call under the scheduling of the event loop: a pending      *)
(* continuation is run, and a request sent is answered or fails.           *)
(***************************************************************************)
\* the configurations that differ in what a call reads: the key of the other
\* transport and the further numbered keys are never read
InitFair ==
  /\ Init
  /\ extraKeys = 0
  /\ isLocal => ~GEMINI_API_KEY
  /\ ~isLocal => ~localApiKey

FairSpec == InitFair /\ [][Next]_vars /\ WF_vars(Next)

RequestsWithinBudget ==
  /\ retryCount <= DirectRetryLimit
  /\ IF isLocal
       THEN proxyReqs = 0 /\ directReqs <= DirectRetryLimit + 1
     ELSE proxyReqs <= ProxyRetryLimit + 1 /\ retryCount <= ProxyRetryLimit

\* C24: every logical call terminates with a bounded number of network
\* requests: whatever the proxy and the provider answer, callGemini ends in a
\* result or an error; the one retry counter never decreases, and the call
\* makes at most 4 proxy requests (non-localhost) or at most 6 provider
\* requests (localhost).
C24_TerminatesWithinBudget ==
  /\ <>Done
  /\ [](Done => result # NoResult)
  /\ []RequestsWithinBudget
  /\ [][retryCount' >= retryCount]_vars

C24_Witness ==
  /\ Done
  /\ isLocal
  /\ directReqs = DirectRetryLimit + 1
  /\ retryCount = DirectRetryLimit
  /\ result # NoResult

\* C25: one logical call uses exactly one transport: on a non-localhost host
\* callGemini never sends a request, and so never its key, to the provider,
\* whatever the proxy answers or however it fails; on localhost it never calls
\* the proxy.
C25_OneTransport ==
  /\ ~isLocal => (directReqs = 0 /\ Len(keyLog) = upstreamReqs)
  /\ isLocal => (proxyReqs = 0 /\ upstreamReqs = 0 /\ Len(keyLog) = directReqs)

C25_Witness ==
  /\ ~isLocal
  /\ localApiKey
  /\ Done
  /\ last \in NetworkFailures
  /\ proxyReqs = 2
  /\ directReqs = 0
  /\ result # NoResult

\* C26: both transports present the same conversation to the provider: for
\* every message list the contents built by the handler's translation equal
\* the contents built by the client's translation (turns, roles and texts).
C26_SameContentsOnBothTransports ==
  Translated => tHandler = tClient

(***************************************************************************)
(* The Dashboard component (src/unnamed/part_002): its state and the       *)
(* handlers its buttons and child components call.  A handler runs to its  *)
(* end, state updates included, before the next one.                       *)
(***************************************************************************)
\* the scores a round reports
Scores == {50, 80}

\* interview.id of createInterview, `session_${Date.now()}` of the fallback
SessionIds == {"interview-id", "session_1"}

Has(list, x) == \E i \in 1..Len(list) : list[i] = x

canStartRounds == selectedCompany # "" /\ selectedRole # "" /\ resumeUploaded

\* the round a round needs completed before it
Previous(roundId) == IF roundId = "coding" THEN "aptitude" ELSE "coding"

\* (variant: coding and interview open without the round before them)
RoundStatusMutant(roundId) ==
  IF ~Has(completedRounds, roundId) /\ (roundId = "aptitude" => canStartRounds)
    THEN "available"
  ELSE IF Has(completedRounds, roundId) THEN "completed"
  ELSE "locked"

\* rounds[...].status
RoundStatus(roundId) ==
  IF roundId = "aptitude" THEN
    IF canStartRounds /\ ~Has(completedRounds, "aptitude") THEN "available"
    ELSE IF Has(completedRounds, "aptitude") THEN "completed"
    ELSE "locked"
  ELSE
    IF Has(completedRounds, Previous(roundId)) /\ ~Has(completedRounds, roundId)
      THEN "available"
    ELSE IF Has(completedRounds, roundId) THEN "completed"
    ELSE "locked"

InitDashboard ==
  /\ CallIdle
  /\ PureIdle
  /\ phase = "app"
  /\ DashboardIdle
  /\ DbIdle

notDashboard == <<callVars, pureVars, dbVars>>

\* CompanySelection: onValueChange of the company Select
setSelectedCompany ==
  /\ currentStep = "setup"
  /\ selectedCompany' = "company"
  /\ event' = "setSelectedCompany"
  /\ UNCHANGED <<currentStep, selectedRole, resumeUploaded, currentRound, sessionId,
                 roundScores, completedRounds>>
  /\ UNCHANGED notDashboard

\* CompanySelection: onValueChange of the role Select
setSelectedRole ==
  /\ currentStep = "setup"
  /\ selectedRole' = "role"
  /\ event' = "setSelectedRole"
  /\ UNCHANGED <<currentStep, selectedCompany, resumeUploaded, currentRound, sessionId,
                 roundScores, completedRounds>>
  /\ UNCHANGED notDashboard

\* ResumeUpload: setResumeUploaded(true) after an upload, (false) on removal
setResumeUploaded ==
  /\ currentStep = "setup"
  /\ \E uploaded \in BOOLEAN : resumeUploaded' = uploaded
  /\ event' = "setResumeUploaded"
  /\ UNCHANGED <<currentStep, selectedCompany, selectedRole, currentRound, sessionId,
                 roundScores, completedRounds>>
  /\ UNCHANGED notDashboard

\* onClick of 'Start Interview Rounds': createInterview succeeds or fails
startInterviewRounds ==
  /\ currentStep = "setup"
  /\ canStartRounds
  /\ \E id \in SessionIds : sessionId' = id
  /\ currentStep' = "rounds"
  /\ event' = "startInterviewRounds"
  /\ UNCHANGED <<selectedCompany, selectedRole, resumeUploaded, currentRound,
                 roundScores, completedRounds>>
  /\ UNCHANGED notDashboard

\* onClick of a round's button: round.status !== "locked" && handleStartRound
handleStartRound ==
  /\ currentStep = "rounds"
  /\ \E roundId \in RoundIds :
       /\ RoundStatus(roundId) # "locked"
       /\ currentRound' = roundId
  /\ currentStep' = "activeRound"
  /\ event' = "handleStartRound"
  /\ UNCHANGED <<selectedCompany, selectedRole, resumeUploaded, sessionId,
                 roundScores, completedRounds>>
  /\ UNCHANGED notDashboard

\* onRoundComplete of the round shown: handleRoundComplete(currentRound, score)
handleRoundComplete ==
  /\ currentStep = "activeRound"
  /\ \E score \in Scores :
       roundScores' = [roundScores EXCEPT ![currentRound] = score]
  /\ IF Has(completedRounds, currentRound)
       THEN UNCHANGED <<completedRounds, currentStep>>
     ELSE /\ completedRounds' = Append(completedRounds, currentRound)
          /\ currentStep' = IF Len(completedRounds') = 3 THEN "finalResults" ELSE "rounds"
  /\ event' = "handleRoundComplete"
  /\ UNCHANGED <<selectedCompany, selectedRole, resumeUploaded, currentRound, sessionId>>
  /\ UNCHANGED notDashboard

\* onClick of 'Back to Setup'
backToSetup ==
  /\ currentStep = "rounds"
  /\ currentStep' = "setup"
  /\ event' = "backToSetup"
  /\ UNCHANGED <<selectedCompany, selectedRole, resumeUploaded, currentRound, sessionId,
                 roundScores, completedRounds>>
  /\ UNCHANGED notDashboard

\* onRestart of FinalResults
onRestart ==
  /\ currentStep = "finalResults"
  /\ currentStep' = "setup"
  /\ roundScores' = [r \in RoundIds |-> 0]
  /\ selectedCompany' = ""
  /\ selectedRole' = ""
  /\ resumeUploaded' = FALSE
  /\ event' = "onRestart"
  /\ UNCHANGED <<currentRound, sessionId, completedRounds>>
  /\ UNCHANGED notDashboard

NextDashboard ==
  \/ setSelectedCompany
  \/ setSelectedRole
  \/ setResumeUploaded
  \/ startInterviewRounds
  \/ handleStartRound
  \/ handleRoundComplete
  \/ backToSetup
  \/ onRestart

SpecDashboard == InitDashboard /\ [][NextDashboard]_vars

\* C28: whenever a round reports completion (handleRoundComplete), the
\* Dashboard leaves the active-round step: it shows the final results exactly
\* when all three rounds are then completed and the rounds overview otherwise,
\* for first completions and for retakes alike.
C28_CompletionLeavesActiveRound ==
  event = "handleRoundComplete" =>
    currentStep = (IF Len(completedRounds) = 3 THEN "finalResults" ELSE "rounds")

\* not locked, in the words of the claim: the first round once the setup is
\* complete, a later round once the round before it is completed
Unlocked(roundId) ==
  \/ Has(completedRounds, roundId)
  \/ IF roundId = "aptitude" THEN canStartRounds
     ELSE Has(completedRounds, Previous(roundId))

\* C29: rounds complete in order: completedRounds has no duplicates, 'coding'
\* in it implies 'aptitude' in it, 'interview' in it implies 'coding' in it,
\* and a round is started only while its status is not 'locked'.
C29_RoundsCompleteInOrder ==
  /\ \A i, j \in 1..Len(completedRounds) :
       completedRounds[i] = completedRounds[j] => i = j
  /\ Has(completedRounds, "coding") => Has(completedRounds, "aptitude")
  /\ Has(completedRounds, "interview") => Has(completedRounds, "coding")
  /\ event = "handleStartRound" =>
       (Unlocked(currentRound) /\ RoundStatus(currentRound) # "locked")

C29_Witness ==
  /\ event = "handleStartRound"
  /\ currentRound = "interview"
  /\ completedRounds = <<"aptitude", "coding">>
  /\ currentStep = "activeRound"

(***************************************************************************)
(* dbService.saveRoundResult (db-service.ts 37-68) on one interview; every *)
(* await is a point where another call may run.                            *)
(***************************************************************************)
\* most calls of saveRoundResult started on the interview
MaxSaves == 2

\* the Dashboard after 'Start Interview Rounds' with a database interview
DashboardInSession ==
  /\ currentStep = "rounds"
  /\ selectedCompany = "company"
  /\ selectedRole = "role"
  /\ resumeUploaded = TRUE
  /\ currentRound = ""
  /\ sessionId = "interview-id"
  /\ roundScores = [r \in RoundIds |-> 0]
  /\ completedRounds = << >>
  /\ event = "startInterviewRounds"

InitDb ==
  /\ CallIdle
  /\ PureIdle
  /\ phase = "app"
  /\ DashboardInSession
  /\ DbIdle

notDb == <<callVars, pureVars, dashboardVars>>

\* sessionId.startsWith('session_')
IsFallbackSession(id) == id = "session_1"

\* a call of saveRoundResult, at its first await
\* (failed: one of its database operations did not succeed)
SaveCall(score) == [pc |-> "insert", score |-> score, read |-> 0, failed |-> FALSE]

\* handleRoundComplete: dbService.saveRoundResult(...).catch(console.error),
\* not awaited
handleRoundComplete_save ==
  /\ sessionId # "" /\ ~IsFallbackSession(sessionId)
  /\ Len(saves) < MaxSaves
  /\ \E score \in Scores : saves' = Append(saves, SaveCall(score))
  /\ UNCHANGED <<interview_scores, total_score>>
  /\ UNCHANGED notDb

\* insert into interview_scores; if (error) throw error
saveRoundResult_insert ==
  /\ \E c \in 1..Len(saves) :
       /\ saves[c].pc = "insert"
       /\ \/ /\ interview_scores' = Append(interview_scores, saves[c].score)
             /\ saves' = [saves EXCEPT ![c].pc = "select"]
          \/ /\ saves' = [saves EXCEPT ![c].pc = "thrown", ![c].failed = TRUE]
             /\ UNCHANGED interview_scores
  /\ UNCHANGED total_score
  /\ UNCHANGED notDb

\* select total_score: interview?.total_score || 0
saveRoundResult_select ==
  /\ \E c \in 1..Len(saves) :
       /\ saves[c].pc = "select"
       /\ \E found \in BOOLEAN :
            saves' = [saves EXCEPT ![c].pc = "update",
                                   ![c].read = IF found THEN total_score ELSE 0,
                                   ![c].failed = ~found]
  /\ UNCHANGED <<interview_scores, total_score>>
  /\ UNCHANGED notDb

\* newTotalScore = read + score; update interviews, its outcome not looked at
saveRoundResult_update ==
  /\ \E c \in 1..Len(saves) :
       /\ saves[c].pc = "update"
       /\ \E updated \in BOOLEAN :
            /\ total_score' = IF updated THEN saves[c].read + saves[c].score
                              ELSE total_score
            /\ saves' = [saves EXCEPT ![c].pc = "done", ![c].failed = @ \/ ~updated]
  /\ UNCHANGED interview_scores
  /\ UNCHANGED notDb

NextDb ==
  \/ handleRoundComplete_save
  \/ saveRoundResult_insert
  \/ saveRoundResult_select
  \/ saveRoundResult_update

SpecDb == InitDb /\ [][NextDb]_vars

RECURSIVE SumOf(_)
SumOf(list) == IF Len(list) = 0 THEN 0 ELSE Head(list) + SumOf(Tail(list))

NoSaveRunning == \A c \in 1..Len(saves) : saves[c].pc \in {"done", "thrown"}

\* C30: interviews.total_score stays equal to the sum of the scores of the
\* rows saveRoundResult inserted into interview_scores for the interview, for
\* every interleaving of saveRoundResult calls on it (looked at when no call
\* is between its insert and its update, every database operation of every
\* call having succeeded).
C30_TotalIsSumOfRows ==
  (NoSaveRunning /\ \A c \in 1..Len(saves) : ~saves[c].failed) =>
    total_score = SumOf(interview_scores)

====
